---- MODULE Spec2Model ----
(***************************************************************************)
(* locateimage: brute-force search of a sample image within a canvas.      *)
(*                                                                         *)
(* The module models foreachRGBA (the window scanner), the three public    *)
(* operations built on it (Foreach, All, Find), Match.Before and Sort.     *)
(*                                                                         *)
(* Numbers.  A tolerance is the rational tolerance / TolDen; a similarity  *)
(* is the rational <<num, den>> = 1 - diff / maxTotalDiff, kept exact.     *)
(* For the dyadic tolerances of TolDen = 4 every float64 product and sum   *)
(* of the source is exact, and int64(v + 0.5) of a non-negative v is       *)
(* floor(v + 0.5), so the integer formulas below are the source's values.  *)
(***************************************************************************)
EXTENDS Integers, Sequences, FiniteSets, TLC

VARIABLES
    canvas,     \* the canvas image: [w, h, pix], pix the RGBA bytes
    sample,     \* the sample image, same shape
    tolerance,  \* numerator of the tolerance over TolDen
    op,         \* the public operation called: "Foreach", "All" or "Find"
    selection,  \* Find's selection argument
    cb,         \* Foreach's caller-supplied callback: what it returns, and when
    cancelled,  \* ctx.Err() # nil
    cancelAt,   \* where the scan stood when ctx was cancelled
    pc,         \* position in the call
    x, y,       \* foreachRGBA's loop variables
    compared,   \* the window origins compared so far, in order
    calls,      \* the matches passed to the callback so far, in order
    count,      \* Find's count
    best,       \* Find's best
    mm,         \* All's mm
    err,        \* the error foreachRGBA returned
    result      \* what the public operation returned: [err, m, mm]

vars == <<canvas, sample, tolerance, op, selection, cb, cancelled, cancelAt,
          pc, x, y, compared, calls, count, best, mm, err, result>>

-----------------------------------------------------------------------------
(* Bounds of the model *)

MaxArea == 4     \* canvases of every width and height with at most MaxArea pixels
TolDen == 4      \* tolerances are 0/TolDen .. TolDen/TolDen
MaxAt == 2       \* the Foreach callback stops at its 1st..MaxAt-th call, or fails at its 1st

\* Colours (R, G, B) the canvas and the sample are painted with.
CanvasPalette == {<<0, 0, 0>>, <<255, 255, 255>>}
SamplePalette == {<<0, 0, 0>>, <<255, 128, 0>>}

\* Sample sizes <<w, h>>: one pixel, a row of two, a column of two, and no area.
SampleDims == {<<1, 1>>, <<2, 1>>, <<1, 2>>, <<0, 1>>}

-----------------------------------------------------------------------------
(* Program constants *)

pixSize == 4
SimilarityPrecisionInv == 1000000   \* SimilarityPrecision = 1 / 1000000

-----------------------------------------------------------------------------
(* Images *)

\* image.NewRGBA(w x h) painted pixel by pixel: Pix holds R, G, B, A per pixel,
\* Stride bytes per row; the alpha byte is opaque.
MkImage(w, h, colour) ==
    [w |-> w, h |-> h,
     pix |-> [i \in 0..(pixSize * w * h - 1) |->
                IF i % pixSize = 3 THEN 255 ELSE colour[i \div pixSize][(i % pixSize) + 1]]]

Stride(img) == pixSize * img.w

Images(ws, hs, palette) ==
    UNION {{MkImage(w, h, c) : c \in [0..(w * h - 1) -> palette]} : w \in ws, h \in hs}

\* abs: y = n >> 63 is -1 for a negative n and 0 otherwise; n ^ -1 = -n - 1.
abs(n) ==
    LET yy == IF n < 0 THEN -1 ELSE 0
        nxy == IF yy = 0 THEN n ELSE -n - 1
    IN  nxy - yy

-----------------------------------------------------------------------------
(* foreachRGBA's locals *)

\* wcanv, hcanv after "wcanv -= wsamp - 1", "hcanv -= hsamp - 1"
wcanvOf(c, s) == c.w - (s.w - 1)
hcanvOf(c, s) == c.h - (s.h - 1)

\* the early return: nothing to scan
NoScan(c, s) == c.w < s.w \/ c.h < s.h \/ s.w = 0 \/ s.h = 0

\* int64(3*256*pixelTolerance + 0.5), pixelTolerance = 2 * tolerance
pixelDiffThreshold(t) == (2 * 3 * 256 * 2 * t + TolDen) \div (2 * TolDen)

\* int64(wcanv) * int64(hcanv) * 3 * 255, wcanv and hcanv already reduced
maxTotalDiff(c, s) == wcanvOf(c, s) * hcanvOf(c, s) * 3 * 255

\* Variant: the tolerance taken for a similarity, the budget shrinking as it grows.
totalDiffThresholdInverted(c, s, t) ==
    (2 * (TolDen - t) * maxTotalDiff(c, s) + TolDen) \div (2 * TolDen)

\* int64(tolerance*float64(maxTotalDiff) + 0.5)
totalDiffThreshold(c, s, t) == (2 * t * maxTotalDiff(c, s) + TolDen) \div (2 * TolDen)

\* The comparison of the window at (wx, wy): the sample's pixels in row-major
\* order, leaving at the first pixel whose delta exceeds the pixel threshold or
\* whose running diff exceeds the total threshold.  k counts the pixels done.
RECURSIVE matchLoop(_, _, _, _, _, _, _, _)
matchLoop(c, s, wx, wy, pthr, tthr, k, diff) ==
    IF k = s.w * s.h THEN [matched |-> TRUE, diff |-> diff]
    ELSE
        LET row   == k \div s.w
            col   == k % s.w
            icanv == wy * Stride(c) + wx * pixSize + row * Stride(c) + col * pixSize
            isamp == row * Stride(s) + col * pixSize
            d0    == abs(c.pix[icanv + 0] - s.pix[isamp + 0])
            d1    == abs(c.pix[icanv + 1] - s.pix[isamp + 1])
            d2    == abs(c.pix[icanv + 2] - s.pix[isamp + 2])
            delta == d0 + d1 + d2
        IN  IF delta > pthr THEN [matched |-> FALSE, diff |-> diff]
            ELSE IF diff + delta > tthr THEN [matched |-> FALSE, diff |-> diff + delta]
            ELSE matchLoop(c, s, wx, wy, pthr, tthr, k + 1, diff + delta)

CompareWindow(c, s, t, wx, wy) ==
    matchLoop(c, s, wx, wy, pixelDiffThreshold(t), totalDiffThreshold(c, s, t), 0, 0)

\* Match{Rect: pt .. pt + (wsamp, hsamp), Similarity: 1 - diff / maxTotalDiff}
MkMatch(c, s, wx, wy, diff) ==
    [x |-> wx, y |-> wy, w |-> s.w, h |-> s.h,
     sim |-> <<maxTotalDiff(c, s) - diff, maxTotalDiff(c, s)>>]

\* var best Match
ZeroMatch == [x |-> 0, y |-> 0, w |-> 0, h |-> 0, sim |-> <<0, 1>>]

-----------------------------------------------------------------------------
(* Match.Before and Sort *)

\* a > b on similarities <<num, den>> (den > 0)
SimGt(a, b) == IF a[2] = b[2] THEN a[1] > b[1] ELSE a[1] * b[2] > b[1] * a[2]

fabs(n) == IF n < 0 THEN -n ELSE n

\* math.Abs(a - b) >= SimilarityPrecision.  Over one denominator this is
\* |a.num - b.num| >= den / 1000000, an integer compared with a quotient.
SimFar(a, b) ==
    IF a[2] = b[2]
    THEN fabs(a[1] - b[1]) >= (a[2] + SimilarityPrecisionInv - 1) \div SimilarityPrecisionInv
    ELSE fabs(a[1] * b[2] - b[1] * a[2]) * SimilarityPrecisionInv >= a[2] * b[2]

Before(a, b) ==
    IF SimFar(a.sim, b.sim) THEN SimGt(a.sim, b.sim)
    ELSE IF a.y # b.y THEN a.y < b.y
    ELSE IF a.x # b.x THEN a.x < b.x
    ELSE FALSE

\* matches.Swap
Swap(s, i, j) == [s EXCEPT ![i] = s[j], ![j] = s[i]]

\* sort.Sort(matches(mm)) with matches.Less = Before.  For the lists of at most
\* 12 elements modelled here sort.Sort is its insertion sort:
\*   for i := a + 1; i < b; i++ { for j := i; j > a && Less(j, j-1); j-- { Swap(j, j-1) } }
RECURSIVE insertionInner(_, _)
insertionInner(s, j) ==
    IF j > 1 /\ Before(s[j], s[j - 1]) THEN insertionInner(Swap(s, j, j - 1), j - 1) ELSE s

RECURSIVE insertionSort(_, _)
insertionSort(s, i) ==
    IF i > Len(s) THEN s ELSE insertionSort(insertionInner(s, i), i + 1)

Sort(s) == insertionSort(s, 2)

-----------------------------------------------------------------------------
(* The callbacks *)

\* Variant: Find's callback never returns ErrBreak.
CallbackErrNoBreak(n) ==
    IF op = "Foreach" /\ cb.kind = "break" /\ n = cb.at THEN "ErrBreak"
    ELSE IF op = "Foreach" /\ cb.kind = "fail" /\ n = cb.at THEN "ErrUser"
    ELSE "nil"

\* What the callback f returns for match m, the n-th it is called with.
\*   Foreach: the caller's callback (cb says when it stops or fails)
\*   All:     func(m) { mm = append(mm, m); return nil }
\*   Find:    func(m) { ...; if selection == Fastest { return ErrBreak }; return nil }
CallbackErr(n) ==
    CASE op = "Foreach" ->
            IF cb.kind = "break" /\ n = cb.at THEN "ErrBreak"
            ELSE IF cb.kind = "fail" /\ n = cb.at THEN "ErrUser"
            ELSE "nil"
      [] op = "All" -> "nil"
      [] op = "Find" -> IF selection = "Fastest" THEN "ErrBreak" ELSE "nil"

\* Variant: ">=" for ">", a later match of equal similarity replacing the held one.
FindBestLast(m) == IF count = 0 \/ ~SimGt(best.sim, m.sim) THEN m ELSE best

\* Find's callback: if count == 0 || m.Similarity > best.Similarity { best = m }
FindBest(m) == IF count = 0 \/ SimGt(m.sim, best.sim) THEN m ELSE best

NoResult == [err |-> "none", m |-> ZeroMatch, mm |-> <<>>]

-----------------------------------------------------------------------------
(* Initial states: one call of a public operation on two RGBA images *)

Tolerances == 0..TolDen
CanvasDims == {d \in (0..MaxArea) \X (1..MaxArea) : d[1] * d[2] <= MaxArea}
Canvases == UNION {Images({d[1]}, {d[2]}, CanvasPalette) : d \in CanvasDims}
Samples == UNION {Images({d[1]}, {d[2]}, SamplePalette) : d \in SampleDims}

Callbacks ==
    {[kind |-> "nil", at |-> 0]}
    \cup {[kind |-> "break", at |-> n] : n \in 1..MaxAt}
    \cup {[kind |-> "fail", at |-> 1]}

Calls ==
    {[op |-> "Foreach", selection |-> "none", cb |-> c] : c \in Callbacks}
    \cup {[op |-> "All", selection |-> "none", cb |-> [kind |-> "nil", at |-> 0]]}
    \cup {[op |-> "Find", selection |-> s, cb |-> [kind |-> "nil", at |-> 0]] :
            s \in {"Fastest", "Best", "Only"}}

NotCancelled == [pc |-> "none", x |-> 0, y |-> 0]

Init ==
    /\ canvas \in Canvases
    /\ sample \in Samples
    /\ tolerance \in Tolerances
    /\ \E c \in Calls : op = c.op /\ selection = c.selection /\ cb = c.cb
    /\ cancelled \in BOOLEAN
    /\ cancelAt = IF cancelled THEN [pc |-> "init", x |-> 0, y |-> 0] ELSE NotCancelled
    /\ pc = "start"
    /\ x = 0
    /\ y = 0
    /\ compared = <<>>
    /\ calls = <<>>
    /\ count = 0
    /\ best = ZeroMatch
    /\ mm = <<>>
    /\ err = "nil"
    /\ result = NoResult

-----------------------------------------------------------------------------
(* foreachRGBA *)

\* Entry: the size check, then the thresholds and the first row.
Enter ==
    /\ pc = "start"
    /\ pc' = IF NoScan(canvas, sample) THEN "ret" ELSE "row"
    /\ UNCHANGED <<canvas, sample, tolerance, op, selection, cb, cancelled, cancelAt,
                   x, y, compared, calls, count, best, mm, err, result>>

\* Variant: the context is looked at between rows only, not before the first.
RowStartLate ==
    /\ pc = "row"
    /\ IF y >= hcanvOf(canvas, sample) THEN pc' = "ret" /\ err' = "nil"
       ELSE IF cancelled /\ y > 0 THEN pc' = "ret" /\ err' = "Canceled"
       ELSE pc' = "col" /\ err' = err
    /\ x' = 0
    /\ UNCHANGED <<canvas, sample, tolerance, op, selection, cb, cancelled, cancelAt,
                   y, compared, calls, count, best, mm, result>>

\* for y := 0; y < hcanv; y++ { if err := ctx.Err(); err != nil { return err } ...
RowStart ==
    /\ pc = "row"
    /\ IF y >= hcanvOf(canvas, sample) THEN pc' = "ret" /\ err' = "nil"
       ELSE IF cancelled THEN pc' = "ret" /\ err' = "Canceled"
       ELSE pc' = "col" /\ err' = err
    /\ x' = 0
    /\ UNCHANGED <<canvas, sample, tolerance, op, selection, cb, cancelled, cancelAt,
                   y, compared, calls, count, best, mm, result>>

\* One pass of "for x := 0; x < wcanv; x++": the window at (x, y) is compared
\* and, when it matched, passed to the callback; an error of the callback is
\* returned at once.
Window ==
    /\ pc = "col"
    /\ LET r    == CompareWindow(canvas, sample, tolerance, x, y)
           m    == MkMatch(canvas, sample, x, y, r.diff)
           ferr == CallbackErr(Len(calls) + 1)
           last == x + 1 >= wcanvOf(canvas, sample)
       IN  /\ compared' = Append(compared, <<x, y>>)
           /\ calls' = IF r.matched THEN Append(calls, m) ELSE calls
           /\ mm' = IF r.matched /\ op = "All" THEN Append(mm, m) ELSE mm
           /\ best' = IF r.matched /\ op = "Find" THEN FindBest(m) ELSE best
           /\ count' = IF r.matched /\ op = "Find" THEN count + 1 ELSE count
           /\ IF r.matched /\ ferr # "nil"
              THEN pc' = "ret" /\ err' = ferr /\ x' = x /\ y' = y
              ELSE /\ err' = err
                   /\ pc' = IF last THEN "row" ELSE "col"
                   /\ x' = x + 1
                   /\ y' = IF last THEN y + 1 ELSE y
    /\ UNCHANGED <<canvas, sample, tolerance, op, selection, cb, cancelled, cancelAt,
                   result>>

\* The context is cancelled by its owner while the call runs.
Cancel ==
    /\ pc \in {"start", "row", "col"}
    /\ ~cancelled
    /\ cancelled' = TRUE
    /\ cancelAt' = [pc |-> pc, x |-> x, y |-> y]
    /\ UNCHANGED <<canvas, sample, tolerance, op, selection, cb,
                   pc, x, y, compared, calls, count, best, mm, err, result>>

-----------------------------------------------------------------------------
(* The public operations, after foreachRGBA returned err *)

\* Variant: Foreach turns ErrBreak into nil, as Find does.
ForeachReturnNil ==
    /\ pc = "ret"
    /\ op = "Foreach"
    /\ result' = [err |-> IF err = "ErrBreak" THEN "nil" ELSE err, m |-> ZeroMatch, mm |-> <<>>]
    /\ pc' = "done"
    /\ UNCHANGED <<canvas, sample, tolerance, op, selection, cb, cancelled, cancelAt,
                   x, y, compared, calls, count, best, mm, err>>

\* Foreach: return foreachRGBA(ctx, c, s, tolerance, f)
ForeachReturn ==
    /\ pc = "ret"
    /\ op = "Foreach"
    /\ result' = [err |-> err, m |-> ZeroMatch, mm |-> <<>>]
    /\ pc' = "done"
    /\ UNCHANGED <<canvas, sample, tolerance, op, selection, cb, cancelled, cancelAt,
                   x, y, compared, calls, count, best, mm, err>>

\* All: Sort(mm); return mm, err
AllReturn ==
    /\ pc = "ret"
    /\ op = "All"
    /\ mm' = Sort(mm)
    /\ result' = [err |-> err, m |-> ZeroMatch, mm |-> mm']
    /\ pc' = "done"
    /\ UNCHANGED <<canvas, sample, tolerance, op, selection, cb, cancelled, cancelAt,
                   x, y, compared, calls, count, best, err>>

\* Variant: the "if err == nil" guard is missing, the count deciding the error alone.
FindErrUnguarded ==
    IF count = 0 THEN "ErrNotFound"
    ELSE IF selection = "Only" /\ count > 1 THEN "ErrMultipleFound"
    ELSE IF err = "ErrBreak" THEN "nil" ELSE err

\* Find: ErrBreak becomes nil; a nil error becomes ErrNotFound or ErrMultipleFound
FindErr ==
    LET e == IF err = "ErrBreak" THEN "nil" ELSE err
    IN  IF e = "nil"
        THEN IF count = 0 THEN "ErrNotFound"
             ELSE IF selection = "Only" /\ count > 1 THEN "ErrMultipleFound"
             ELSE e
        ELSE e

FindReturn ==
    /\ pc = "ret"
    /\ op = "Find"
    /\ result' = [err |-> FindErr, m |-> best, mm |-> <<>>]
    /\ pc' = "done"
    /\ UNCHANGED <<canvas, sample, tolerance, op, selection, cb, cancelled, cancelAt,
                   x, y, compared, calls, count, best, mm, err>>

Next ==
    \/ Enter
    \/ RowStart
    \/ Window
    \/ Cancel
    \/ ForeachReturn
    \/ AllReturn
    \/ FindReturn

Spec == Init /\ [][Next]_vars

-----------------------------------------------------------------------------
(* All's last step on the matches of a large canvas                         *)
(*                                                                         *)
(* SimilarityPrecision only matters when maxTotalDiff exceeds 1000000,     *)
(* i.e. for more than 1307 window positions.  SpecOrder starts where       *)
(* Foreach has returned nil into All for the 100x100 canvas and a 10x10    *)
(* sample of the tests (91 * 91 positions): mm holds, in scan order, matches at origins of the *)
(* top-left corner whose diffs are multiples of 4 (a difference of 7 or    *)
(* more is one of SimilarityPrecision or more there).  Every such list is  *)
(* emitted by some canvas: pixel (0,0), (10,0), (0,10), ... lies in one of *)
(* these windows only and sets that window's diff, the pixels beyond them  *)
(* keep every other window from matching.  The pixels are not part of      *)
(* these states, nor is the record of the windows compared: AllReturn      *)
(* reads neither.                                                          *)

MaxOrderXY == 1     \* origins (0..MaxOrderXY) x (0..MaxOrderXY)
MaxOrderStep == 2   \* diffs 0, 4, .. 4 * MaxOrderStep
MaxList == 3        \* at most MaxList matches

OrderCanvas == [w |-> 100, h |-> 100, pix |-> <<>>]
OrderSample == [w |-> 10, h |-> 10, pix |-> <<>>]

\* The origins in scan order, and the matches at the i-th of them.
OrderOrigins ==
    [i \in 1..((MaxOrderXY + 1) * (MaxOrderXY + 1)) |->
        <<(i - 1) % (MaxOrderXY + 1), (i - 1) \div (MaxOrderXY + 1)>>]

OrderMatchesAt(i) ==
    {MkMatch(OrderCanvas, OrderSample, OrderOrigins[i][1], OrderOrigins[i][2], 4 * k) :
        k \in 0..MaxOrderStep}

\* The lists of at most n matches at origins i.. of OrderOrigins, in scan order.
RECURSIVE OrderListsFrom(_, _)
OrderListsFrom(i, n) ==
    IF n = 0 \/ i > Len(OrderOrigins) THEN {<<>>}
    ELSE OrderListsFrom(i + 1, n)
         \cup {<<m>> \o l : m \in OrderMatchesAt(i), l \in OrderListsFrom(i + 1, n - 1)}

OrderLists == OrderListsFrom(1, MaxList)

InitOrder ==
    /\ canvas = OrderCanvas
    /\ sample = OrderSample
    /\ tolerance = 1
    /\ op = "All"
    /\ selection = "none"
    /\ cb = [kind |-> "nil", at |-> 0]
    /\ cancelled = FALSE
    /\ cancelAt = NotCancelled
    /\ pc = "ret"
    /\ x = 0
    /\ y = hcanvOf(OrderCanvas, OrderSample)
    /\ compared = <<>>
    /\ mm \in OrderLists
    /\ calls = mm
    /\ count = 0
    /\ best = ZeroMatch
    /\ err = "nil"
    /\ result = NoResult

NextOrder == AllReturn

SpecOrder == InitOrder /\ [][NextOrder]_vars

-----------------------------------------------------------------------------
(* Reference definitions for the properties *)

\* The window origins of a scan, in row-major order.
Origins(c, s) ==
    IF NoScan(c, s) THEN <<>>
    ELSE [i \in 1..(wcanvOf(c, s) * hcanvOf(c, s)) |->
            <<(i - 1) % wcanvOf(c, s), (i - 1) \div wcanvOf(c, s)>>]

Qualifies(c, s, t, o) == CompareWindow(c, s, t, o[1], o[2]).matched

\* The origins that qualify at tolerance t, in row-major order.
MatchOrigins(c, s, t) ==
    LET Test(o) == Qualifies(c, s, t, o) IN SelectSeq(Origins(c, s), Test)

MatchAt(c, s, t, o) == MkMatch(c, s, o[1], o[2], CompareWindow(c, s, t, o[1], o[2]).diff)

OriginOf(m) == <<m.x, m.y>>
OriginSet(ms) == {OriginOf(ms[i]) : i \in 1..Len(ms)}
Range(q) == {q[i] : i \in 1..Len(q)}

\* The sum of |dR| + |dG| + |dB| over all the pixels of the window at o.
RECURSIVE WindowDiff(_, _, _, _)
WindowDiff(c, s, o, k) ==
    IF k = s.w * s.h THEN 0
    ELSE LET ic == ((o[2] + (k \div s.w)) * c.w + o[1] + (k % s.w)) * pixSize
             is == k * pixSize
             D(i) == fabs(c.pix[ic + i] - s.pix[is + i])
         IN  D(0) + D(1) + D(2) + WindowDiff(c, s, o, k + 1)

\* Index of the first match of greatest similarity in a non-empty list.
FirstBestIdx(ms) ==
    CHOOSE i \in 1..Len(ms) :
        /\ \A j \in 1..Len(ms) : ~SimGt(ms[j].sim, ms[i].sim)
        /\ \A j \in 1..(i - 1) : SimGt(ms[i].sim, ms[j].sim)

\* foreachRGBA returned nil: every row was scanned (or there was nothing to scan).
ScanComplete == pc \in {"ret", "done"} /\ err = "nil"

IsPermutation(a, b) ==
    /\ Len(a) = Len(b)
    /\ \E f \in [1..Len(a) -> 1..Len(a)] :
          /\ \A i, j \in 1..Len(a) : i # j => f[i] # f[j]
          /\ \A i \in 1..Len(a) : a[i] = b[f[i]]

\* No element stands after one it should sort before.
OrderedByBefore(ms) == \A i, j \in 1..Len(ms) : i < j => ~Before(ms[j], ms[i])

-----------------------------------------------------------------------------
(* C1 *)

\* C1: every match passed to the callback has Similarity >= 1 - tolerance
\* (and so Similarity = 1 at tolerance 0).
C1_SimilarityAtLeastOneMinusTolerance ==
    \A i \in 1..Len(calls) :
        calls[i].sim[1] * TolDen >= (TolDen - tolerance) * calls[i].sim[2]

(* C2 *)

C3_BreakReturnsNil ==
    (op = "Foreach" /\ cb.kind = "break" /\ Len(calls) >= cb.at) =>
        /\ Len(calls) = cb.at
        /\ pc \in {"ret", "done"}
        /\ compared[Len(compared)] = OriginOf(calls[Len(calls)])
        /\ (pc = "done" => result.err = "nil")

\* C3, amended: once the Foreach callback has returned ErrBreak the scan has
\* ended at that window (no later window is compared or reported), and Foreach
\* returns ErrBreak itself to its caller.
C3_BreakReturnsErrBreak ==
    (op = "Foreach" /\ cb.kind = "break" /\ Len(calls) >= cb.at) =>
        /\ Len(calls) = cb.at
        /\ pc \in {"ret", "done"}
        /\ err = "ErrBreak"
        /\ compared[Len(compared)] = OriginOf(calls[Len(calls)])
        /\ (pc = "done" => result.err = "ErrBreak")

\* Foreach has returned after its callback stopped the scan at its second
\* match, with windows left that were never compared.
C3_Witness ==
    /\ pc = "done"
    /\ op = "Foreach"
    /\ cb.kind = "break"
    /\ cb.at = 2
    /\ Len(calls) = 2
    /\ Len(compared) < Len(Origins(canvas, sample))

(* C4 *)

\* C4, as stated: a call made with the context already cancelled returns the
\* cancellation cause, calls the callback zero times and delivers no match,
\* whatever the dimensions of the images.
C4_CancelledBeforeAnySize ==
    (cancelAt.pc = "init" /\ pc = "done") =>
        /\ result.err = "Canceled"
        /\ calls = <<>>
        /\ result.mm = <<>>
        /\ result.m = ZeroMatch

\* C4, amended: a call made with the context already cancelled compares no
\* window, calls the callback zero times and delivers no match; it returns the
\* cancellation cause when the sample has an area and fits the canvas, and
\* otherwise what the empty scan returns: nil (Foreach, All) or ErrNotFound (Find).
C4_CancelledBefore ==
    (cancelAt.pc = "init") =>
        /\ compared = <<>>
        /\ calls = <<>>
        /\ (pc = "done" =>
              /\ result.mm = <<>>
              /\ result.m = ZeroMatch
              /\ result.err = IF ~NoScan(canvas, sample) THEN "Canceled"
                              ELSE IF op = "Find" THEN "ErrNotFound"
                              ELSE "nil")

\* Find has returned the cancellation cause for a context cancelled before the
\* call, on images with a window that qualifies.
C4_Witness ==
    /\ cancelAt.pc = "init"
    /\ pc = "done"
    /\ op = "Find"
    /\ result.err = "Canceled"
    /\ Len(MatchOrigins(canvas, sample, tolerance)) > 0

(* C5 *)

\* C5: Find in Only mode, its scan not ended by cancellation, returns
\* ErrMultipleFound if and only if at least 2 windows qualify at the tolerance,
\* and then the match returned with it is the first in row-major order among
\* those of greatest similarity.
C5_OnlyMultipleFound ==
    (pc = "done" /\ op = "Find" /\ selection = "Only" /\ err # "Canceled") =>
        LET q  == MatchOrigins(canvas, sample, tolerance)
            ms == [i \in 1..Len(q) |-> MatchAt(canvas, sample, tolerance, q[i])]
        IN  /\ (result.err = "ErrMultipleFound") <=> (Len(q) >= 2)
            /\ Len(q) >= 2 => result.m = ms[FirstBestIdx(ms)]

\* Find in Only mode has returned ErrMultipleFound with a match that is not the
\* first one found, a later match being as similar as the one returned.
C5_Witness ==
    /\ pc = "done"
    /\ op = "Find"
    /\ selection = "Only"
    /\ result.err = "ErrMultipleFound"
    /\ result.m # calls[1]
    /\ \E i \in 1..Len(calls) :
          /\ calls[i].sim = result.m.sim
          /\ calls[i] # result.m

(* C6 *)

\* C6: the origins a complete scan reports at a tolerance are the origins that
\* qualify at it, and each of them qualifies at every greater tolerance.
C6_ToleranceMonotone ==
    (ScanComplete /\ ~NoScan(canvas, sample)) =>
        /\ OriginSet(calls) = Range(MatchOrigins(canvas, sample, tolerance))
        /\ \A t2 \in Tolerances :
              t2 > tolerance =>
                  OriginSet(calls) \subseteq Range(MatchOrigins(canvas, sample, t2))

\* A complete scan at a tolerance below 1 has reported a match, and a greater
\* tolerance admits a window this one rejects.
C6_Witness ==
    /\ ScanComplete
    /\ pc = "done"
    /\ calls # <<>>
    /\ \E t2 \in Tolerances :
          /\ t2 > tolerance
          /\ Range(MatchOrigins(canvas, sample, t2)) # OriginSet(calls)

(* C7 *)

\* C7: Before is a strict total order over matches of pairwise distinct
\* origins (here the matches All has sorted with it): irreflexive, asymmetric,
\* transitive, and total.
C7_BeforeStrictTotalOrder ==
    LET ms == IF pc = "done" /\ op = "All" THEN Range(result.mm) ELSE {}
    IN  /\ \A a \in ms : ~Before(a, a)
        /\ \A a, b \in ms : ~(Before(a, b) /\ Before(b, a))
        /\ \A a, b, c \in ms : (Before(a, b) /\ Before(b, c)) => Before(a, c)
        /\ \A a, b \in ms : OriginOf(a) # OriginOf(b) => (Before(a, b) \/ Before(b, a))

(* C8 *)

\* C8: the list All returns is ordered by Before: no element b stands after an
\* element a with Before(b, a), adjacent or not.
C8_AllOrderedByBefore ==
    (pc = "done" /\ op = "All") => OrderedByBefore(result.mm)

(* C9 *)

\* C9: with no cancellation, Find in Fastest mode returns ErrNotFound exactly
\* when no window qualifies; otherwise it returns, with a nil error, the match
\* at the qualifying origin that is least in row-major order, and the windows
\* compared are those up to that origin and no other.
C9_FastestFirstInScanOrder ==
    (pc = "done" /\ op = "Find" /\ selection = "Fastest" /\ ~cancelled) =>
        LET q == MatchOrigins(canvas, sample, tolerance)
            o == Origins(canvas, sample)
        IN  /\ (result.err = "ErrNotFound") <=> (q = <<>>)
            /\ q = <<>> => compared = o
            /\ q # <<>> =>
                  /\ result.err = "nil"
                  /\ result.m = MatchAt(canvas, sample, tolerance, q[1])
                  /\ calls = <<result.m>>
                  /\ compared # <<>>
                  /\ compared = SubSeq(o, 1, Len(compared))
                  /\ compared[Len(compared)] = q[1]

\* Find in Fastest mode has returned a match that is not at the first origin,
\* with a later window, never compared, that is more similar.
C9_Witness ==
    /\ pc = "done"
    /\ op = "Find"
    /\ selection = "Fastest"
    /\ ~cancelled
    /\ result.err = "nil"
    /\ OriginOf(result.m) # <<0, 0>>
    /\ \E i \in 1..Len(MatchOrigins(canvas, sample, tolerance)) :
          SimGt(MatchAt(canvas, sample, tolerance,
                        MatchOrigins(canvas, sample, tolerance)[i]).sim, result.m.sim)

(* C10 *)

\* C10: when the context is cancelled while row y is being scanned, no window
\* of a later row is compared or reported; and when y is not the last row, All
\* and Find in Best or Only mode compare row y to its end and return the
\* cancellation cause together with what was found so far: All the matches in
\* Sort's order, Find the first match of greatest similarity (none if none).
C10_CancelSeenAtNextRow ==
    (cancelAt.pc = "col") =>
        /\ \A i \in 1..Len(compared) : compared[i][2] <= cancelAt.y
        /\ \A i \in 1..Len(calls) : calls[i].y <= cancelAt.y
        /\ (pc = "done" /\ cancelAt.y < hcanvOf(canvas, sample) - 1
              /\ (op = "All" \/ (op = "Find" /\ selection \in {"Best", "Only"}))) =>
              /\ result.err = "Canceled"
              /\ Len(compared) = wcanvOf(canvas, sample) * (cancelAt.y + 1)
              /\ OriginSet(calls) =
                    {o \in Range(MatchOrigins(canvas, sample, tolerance)) : o[2] <= cancelAt.y}
              /\ op = "All" =>
                    /\ IsPermutation(result.mm, calls)
                    /\ OrderedByBefore(result.mm)
              /\ op = "Find" =>
                    result.m = IF calls = <<>> THEN ZeroMatch ELSE calls[FirstBestIdx(calls)]

\* All has returned the cancellation cause and two matches, put in another
\* order than found, for a context cancelled in the middle of a row that is not
\* the last; a window of a later row qualifies and was not compared.
C10_Witness ==
    /\ pc = "done"
    /\ op = "All"
    /\ cancelAt.pc = "col"
    /\ cancelAt.x > 0
    /\ cancelAt.y < hcanvOf(canvas, sample) - 1
    /\ result.err = "Canceled"
    /\ Len(result.mm) = 2
    /\ result.mm # calls
    /\ \E o \in Range(MatchOrigins(canvas, sample, tolerance)) : o[2] > cancelAt.y

====
